---- MODULE Spec2Model ----
(***************************************************************************)
(* Face registry dashboard: profile synchronisation (fetchUserData, the    *)
(* connectivity listeners and the effect that re-runs them), the           *)
(* enrollment pipeline (handleLivenessSuccess) and its two camera          *)
(* components (WebcamCapture, LivenessCheck), against a remote profile     *)
(* document and a blob store.                                              *)
(*                                                                         *)
(* React semantics used throughout: the state setters called by one       *)
(* synchronous stretch of code (a handler up to its first await, or the    *)
(* continuation after an await) are committed together; a callback reads   *)
(* the state of the render that created it (its closure), not the current *)
(* state; an effect re-runs after a commit that changed one of its        *)
(* dependencies.                                                           *)
(***************************************************************************)
EXTENDS Integers, Sequences, FiniteSets, TLC

(***************************************************************************)
(* Bounds of the model.                                                    *)
(***************************************************************************)
MaxInFlight == 2      \* getDoc calls in flight at once
MaxPending == 1       \* recorder events, reads and verifier calls outstanding
MaxPipes == 1         \* runs of handleLivenessSuccess in progress at once
MaxPerformed == 3     \* length of the verifier's performedActions
MaxFeatureLen == 1    \* length of the extractor's feature vector
NumImages == 1        \* distinct frames the camera can deliver
TimeUnit == 2500      \* granularity of the times a progress callback reads, ms
MaxElapsed == 3       \* latest time a progress callback reads, in time units
NumRerunImages == 2   \* distinct frames captured over repeated enrollment attempts

(***************************************************************************)
(* Values.                                                                 *)
(***************************************************************************)
Null == [isNull |-> TRUE]
NoDoc == [exists |-> FALSE]
NoError == "null"
NoImage == [isNull |-> TRUE]
NoBlob == "none"

\* toast({ title, description })
NoToast == [title |-> "none"]
Toast(title, description) == [title |-> title, description |-> description]

uid == "u1"

\* t(key): the translation of a message key; distinct keys are taken to have
\* distinct translations, so a message is represented by its key.
t(key) == key

\* The document written at registration.
FreshRecord ==
    [uid |-> uid, fullName |-> "name", email |-> "mail", employeeId |-> "emp",
     department |-> "SM", faceRegistered |-> FALSE]

\* { ...a, ...b }: the keys of both, b's value where both have the key.
Merge(a, b) ==
    [k \in (DOMAIN a) \cup (DOMAIN b) |-> IF k \in DOMAIN b THEN b[k] ELSE a[k]]

\* liveness-check: the required actions.
ACTIONS_TO_PERFORM == <<"blink", "head_right">>
LivenessAction == {"blink", "head_left", "head_right"}

Images == {[frame |-> i] : i \in 1..NumImages}
IsImage(x) == "frame" \in DOMAIN x

RECORDING_DURATION_MS == 5000

\* getDownloadURL of faceImages/<uid>.jpg.
DownloadUrl == "https://storage/faceImages/u1.jpg"

ErrorCodes == {"unavailable", "permission-denied", "invalid-argument", "internal"}

VARIABLES
    \* Dashboard state (useState)
    userData, loading, isOffline, fetchError,
    showWebcam, capturedImage, processing, livenessCheckRequired,
    \* runtime
    onLine,          \* navigator.onLine
    effectDue,       \* a commit changed a dependency of the mount effect
    mounted,         \* the first effects have run
    unmounted,       \* Dashboard has left the tree (Home no longer renders it)
    hUserData,       \* userData in the closure of the installed listeners
    hFetchError,     \* fetchError in the closure of the installed listeners
    onlineListeners, \* number of registered 'online' (and 'offline') listeners
    inFlight,        \* getDoc calls not yet settled
    lastOutcome,     \* output: how a getDoc settled in the last step, if one did,
                     \* and whether a profile was held when it settled
    \* remote
    remote,          \* the document users/<uid>
    blob,            \* the object faceImages/<uid>.jpg
    \* children of Dashboard and their asynchronous work
    wc,              \* WebcamCapture: its state while mounted
    lc,              \* LivenessCheck: its state, refs and closures while mounted
    pending,         \* recorder events, reads and verifier calls not yet delivered
    timers,          \* the timers armed in the browser: setTimeout, setInterval
    updateRejected,  \* history: the updateDoc of a run was rejected (recorded
                     \* by UpdateRejectsNoted only)
    issued,          \* history: handleLivenessSuccess was called while the
                     \* captured image now held was held
    lcToast,         \* output: the toast LivenessCheck raised in the last step
    pipes,           \* runs of handleLivenessSuccess not yet finished
    enrollToast      \* output: the toast with which handleLivenessSuccess ended
                     \* in the last step

syncVars == <<userData, loading, isOffline, fetchError, onLine, effectDue,
              mounted, unmounted, hUserData, hFetchError, onlineListeners,
              inFlight>>
enrollVars == <<showWebcam, capturedImage, processing, livenessCheckRequired>>
remoteVars == <<remote, blob>>
childVars == <<wc, lc, pending, timers, issued, updateRejected>>
outVars == <<lastOutcome, lcToast, enrollToast>>
vars == <<syncVars, enrollVars, remoteVars, childVars, pipes, outVars>>

\* A step that settles no getDoc and raises none of the toasts observed.
NoneSettled == [kind |-> "none", held |-> FALSE]
Outcome(kind) == [kind |-> kind, held |-> userData # Null]
NoOutcome == lastOutcome' = NoneSettled
NoLcToast == lcToast' = NoToast
NoEnrollToast == enrollToast' = NoToast
Quiet == NoOutcome /\ NoLcToast /\ NoEnrollToast

(***************************************************************************)
(* What Dashboard renders.                                                 *)
(***************************************************************************)
\* "3. Data Loaded State": the main view is rendered whenever a profile is held.
MainView == userData # Null
\* "2. Error State": fetchError && !userData.
ErrorScreen == userData = Null /\ fetchError # NoError
\* The two retry buttons, both disabled={loading}.
RetryEnabled ==
    /\ ~loading
    /\ \/ ErrorScreen
       \/ MainView /\ fetchError # NoError /\ fetchError # t("offline_message")
LivenessMounted ==
    MainView /\ ~processing /\ livenessCheckRequired /\ capturedImage # NoImage

\* Variant: WebcamCapture rendered while processing.
WebcamMountedWhileProcessing ==
    MainView /\ ~livenessCheckRequired /\ showWebcam

WebcamMounted ==
    MainView /\ ~processing /\ ~livenessCheckRequired /\ showWebcam

\* Variant: the register button without isOffline in disabled=.
RegisterButtonEnabledOffline ==
    /\ MainView /\ ~processing /\ ~livenessCheckRequired /\ ~showWebcam
    /\ capturedImage = NoImage

RegisterButtonEnabled ==
    /\ MainView /\ ~processing /\ ~livenessCheckRequired /\ ~showWebcam
    /\ capturedImage = NoImage
    /\ ~isOffline

(***************************************************************************)
(* The children: mounting and unmounting.                                  *)
(***************************************************************************)
\* WebcamCapture as first rendered: the Webcam element requests the camera.
WcFresh == [stream |-> "requesting", imgSrc |-> NoImage, cameraReady |-> FALSE,
            error |-> NoError]
WcGone == [stream |-> "none", imgSrc |-> NoImage, cameraReady |-> FALSE,
           error |-> NoError]

\* LivenessCheck as first rendered. recorder is mediaRecorderRef.current's
\* state; recordingTimeout and progressInterval tell whether the timer of the
\* ref is armed; stopChunks and cbImage are what the closure of the registered
\* 'stop' listener holds of recordedChunks and of Dashboard's capturedImage;
\* clock is Date.now() - startTime as the progress callback last read it.
LcFresh == [stream |-> "requesting", cameraReady |-> FALSE, error |-> NoError,
            isRecording |-> FALSE, isProcessing |-> FALSE,
            recordedChunks |-> <<>>, recorder |-> "none",
            recordingTimeout |-> FALSE, progressInterval |-> FALSE,
            stopChunks |-> <<>>, cbImage |-> NoImage,
            progress |-> 0, clock |-> 0]
LcGone == [LcFresh EXCEPT !.stream = "none"]

\* mediaRecorder.stop(): the recorder is inactive at once; dataavailable and
\* stop are delivered later to the listeners registered by startRecording.
StopEvent(l, cur) ==
    [kind |-> "stop", cur |-> cur, chunks |-> l.stopChunks, image |-> l.cbImage]

Orphaned(p) == [i \in DOMAIN p |-> [p[i] EXCEPT !.cur = FALSE]]

\* Variant: the cleanup without mediaRecorderRef.current.stop().
TeardownWithoutStop(l, p) == Orphaned(p)

\* The cleanup of LivenessCheck: both timers are cleared with the component,
\* a recorder still recording is stopped, and what the component was waiting
\* for will be delivered to an unmounted component.
Teardown(l, p) ==
    IF l.recorder = "recording"
    THEN Append(Orphaned(p), StopEvent(l, FALSE))
    ELSE Orphaned(p)

\* The children after a commit of Dashboard: a child that stays mounted keeps
\* the state given, a child newly rendered starts fresh, a child no longer
\* rendered is torn down.
NoTimers == [timeout |-> 0, interval |-> 0]

\* One timer fewer when the timer of a ref was armed and no longer is: it
\* fired (setTimeout) or was cleared through the ref.
Gone(before, after) == IF before /\ ~after THEN 1 ELSE 0

\* `armed` is the number of timers of each kind the step creates.  issued
\* follows the session: a captured image newly held or given up starts afresh.
\* A commit of Dashboard leaves Dashboard itself in the tree.
ChildrenCommit(wcNext, lcNext, pendingNext, armed) ==
    /\ wc' = IF WebcamMounted'
             THEN (IF WebcamMounted THEN wcNext ELSE WcFresh)
             ELSE WcGone
    /\ lc' = IF LivenessMounted'
             THEN (IF LivenessMounted THEN lcNext ELSE LcFresh)
             ELSE LcGone
    /\ pending' = IF LivenessMounted /\ ~LivenessMounted'
                  THEN Teardown(lcNext, pendingNext)
                  ELSE pendingNext
    /\ timers' = [timeout |-> timers.timeout + armed
                                - Gone(lc.recordingTimeout, lc'.recordingTimeout),
                  interval |-> timers.interval + armed
                                - Gone(lc.progressInterval, lc'.progressInterval)]
    /\ issued' = IF capturedImage' = NoImage \/ capturedImage = NoImage
                 THEN FALSE
                 ELSE issued \/ Len(pipes') > Len(pipes)
    /\ unmounted' = unmounted

ChildrenFollowArming(wcNext, lcNext, pendingNext, armed) ==
    /\ ChildrenCommit(wcNext, lcNext, pendingNext, armed)
    /\ UNCHANGED updateRejected

ChildrenFollowWith(wcNext, lcNext, pendingNext) ==
    ChildrenFollowArming(wcNext, lcNext, pendingNext, 0)

ChildrenFollow == ChildrenFollowWith(wc, lc, pending)

(***************************************************************************)
(* fetchUserData: the synchronous stretch before the await of getDoc.      *)
(* cFetchError is fetchError in the closure of the callback; nowOnline is  *)
(* navigator.onLine at the call.                                           *)
(***************************************************************************)
PrefixFetchError(cFetchError, nowOnline) ==
    IF ~nowOnline /\ cFetchError # t("offline_message")
    THEN t("offline_message")
    ELSE NoError

GetDocRequest(nowOnline) == [online |-> nowOnline, seen |-> remote]

\* The state after the stretch: setLoading(true), setFetchError(null),
\* setIsOffline(!currentOnlineStatus), the offline message, and getDoc issued.
fetchUserData(cFetchError, nowOnline) ==
    /\ Len(inFlight) < MaxInFlight
    /\ loading' = TRUE
    /\ fetchError' = PrefixFetchError(cFetchError, nowOnline)
    /\ isOffline' = ~nowOnline
    /\ inFlight' = Append(inFlight, GetDocRequest(nowOnline))

\* A commit changes fetchUserData, hence re-runs the mount effect, when
\* userData, fetchError or isOffline changed.
DepsChanged ==
    userData' # userData \/ fetchError' # fetchError \/ isOffline' # isOffline

(***************************************************************************)
(* The effects of Dashboard.                                               *)
(***************************************************************************)
\* First run of both effects: setIsOffline(!navigator.onLine), then
\* fetchUserData() and the listeners.
MountEffects ==
    /\ ~mounted
    /\ ~unmounted
    /\ mounted' = TRUE
    /\ fetchUserData(fetchError, onLine)
    /\ hUserData' = userData
    /\ hFetchError' = fetchError
    /\ onlineListeners' = onlineListeners + 1
    /\ UNCHANGED <<userData, onLine>>
    /\ UNCHANGED <<enrollVars, remoteVars, pipes>>
    /\ Quiet
    /\ ChildrenFollow
    /\ effectDue' = DepsChanged

\* Variant: a re-run that installs new listeners without the cleanup of the
\* previous run.
EffectRunWithoutCleanup ==
    /\ mounted
    /\ effectDue
    /\ fetchUserData(fetchError, onLine)
    /\ hUserData' = userData
    /\ hFetchError' = fetchError
    /\ onlineListeners' = onlineListeners + 1
    /\ UNCHANGED <<userData, onLine, mounted>>
    /\ UNCHANGED <<enrollVars, remoteVars, pipes>>
    /\ Quiet
    /\ ChildrenFollow
    /\ effectDue' = DepsChanged

\* Re-run after fetchUserData changed: the cleanup removes the listeners,
\* fetchUserData() is called again and new listeners are installed.
EffectRun ==
    /\ mounted
    /\ effectDue
    /\ fetchUserData(fetchError, onLine)
    /\ hUserData' = userData
    /\ hFetchError' = fetchError
    /\ onlineListeners' = (onlineListeners - 1) + 1
    /\ UNCHANGED <<userData, onLine, mounted>>
    /\ UNCHANGED <<enrollVars, remoteVars, pipes>>
    /\ Quiet
    /\ ChildrenFollow
    /\ effectDue' = DepsChanged

\* Dashboard leaves the tree (Home renders it only while a user is signed
\* in): the cleanup returned by the mount effect removes the two listeners,
\* the children are torn down with it, and its state is discarded.  A getDoc
\* still awaited settles into a component that is gone, whose state setters
\* do nothing; a recorder event still to be delivered is delivered as after
\* any other teardown of LivenessCheck.
Unmount ==
    /\ mounted
    /\ mounted' = FALSE
    /\ unmounted' = TRUE
    /\ onlineListeners' = onlineListeners - 1
    /\ userData' = Null
    /\ loading' = TRUE
    /\ isOffline' = FALSE
    /\ fetchError' = NoError
    /\ effectDue' = FALSE
    /\ inFlight' = <<>>
    /\ showWebcam' = FALSE
    /\ capturedImage' = NoImage
    /\ processing' = FALSE
    /\ livenessCheckRequired' = FALSE
    /\ wc' = WcGone
    /\ lc' = LcGone
    /\ pending' = IF LivenessMounted THEN Teardown(lc, pending) ELSE pending
    /\ timers' = NoTimers
    /\ issued' = FALSE
    /\ UNCHANGED <<onLine, hUserData, hFetchError, remoteVars, pipes,
                   updateRejected>>
    /\ Quiet

(***************************************************************************)
(* Connectivity events.                                                    *)
(***************************************************************************)
handleOnlineRefetch == hUserData = Null \/ hFetchError # NoError

handleOnline ==
    IF handleOnlineRefetch
    THEN fetchUserData(hFetchError, TRUE)
    ELSE /\ isOffline' = FALSE
         /\ fetchError' = IF hFetchError = t("offline_message")
                          THEN NoError ELSE fetchError
         /\ UNCHANGED <<loading, inFlight>>

GoOnline ==
    /\ ~onLine
    /\ onLine' = TRUE
    /\ UNCHANGED <<userData, mounted, hUserData, hFetchError, onlineListeners>>
    /\ UNCHANGED <<enrollVars, remoteVars, pipes>>
    /\ Quiet
    /\ ChildrenFollow
    /\ IF onlineListeners > 0
       THEN handleOnline /\ effectDue' = (effectDue \/ DepsChanged)
       ELSE UNCHANGED <<loading, isOffline, fetchError, inFlight, effectDue>>

\* Variant: handleOffline without setFetchError.
handleOfflineFlagOnly ==
    /\ isOffline' = TRUE
    /\ UNCHANGED fetchError

handleOffline ==
    /\ isOffline' = TRUE
    /\ fetchError' = t("offline_message")

GoOffline ==
    /\ onLine
    /\ onLine' = FALSE
    /\ UNCHANGED <<userData, loading, mounted, hUserData, hFetchError,
                   onlineListeners, inFlight>>
    /\ UNCHANGED <<enrollVars, remoteVars, pipes>>
    /\ Quiet
    /\ ChildrenFollow
    /\ IF onlineListeners > 0
       THEN handleOffline /\ effectDue' = (effectDue \/ DepsChanged)
       ELSE UNCHANGED <<isOffline, fetchError, effectDue>>

\* Variant: retry ignored while a getDoc is in flight.
RetryIfNoneInFlight ==
    /\ RetryEnabled
    /\ inFlight = <<>>
    /\ fetchUserData(fetchError, onLine)
    /\ UNCHANGED <<userData, onLine, mounted, hUserData, hFetchError,
                   onlineListeners>>
    /\ UNCHANGED <<enrollVars, remoteVars, pipes>>
    /\ Quiet
    /\ ChildrenFollow
    /\ effectDue' = (effectDue \/ DepsChanged)

\* The retry buttons call the fetchUserData of the current render.
Retry ==
    /\ RetryEnabled
    /\ fetchUserData(fetchError, onLine)
    /\ UNCHANGED <<userData, onLine, mounted, hUserData, hFetchError,
                   onlineListeners>>
    /\ UNCHANGED <<enrollVars, remoteVars, pipes>>
    /\ Quiet
    /\ ChildrenFollow
    /\ effectDue' = (effectDue \/ DepsChanged)

(***************************************************************************)
(* fetchUserData: the continuation after getDoc settles.                   *)
(***************************************************************************)
RemoveAt(s, k) == [i \in 1..(Len(s) - 1) |-> IF i < k THEN s[i] ELSE s[i + 1]]

\* Variant: every error but 'unavailable' shown with the generic message.
UiErrorGenericOnly(code) ==
    IF code = "unavailable" THEN t("offline_message")
    ELSE t("failed_to_fetch_user_data_generic")

\* uiError of the catch block, by Firestore error code.
UiError(code) ==
    IF code = "unavailable" THEN t("offline_message")
    ELSE IF code = "permission-denied" THEN t("permission_denied_error_check_rules")
    ELSE IF code = "invalid-argument" THEN t("firestore_error_contact_admin")
    ELSE t("failed_to_fetch_user_data_generic")

\* Variant: userData cleared on every error.
KeepsUserDataNever(code) == FALSE

\* "Only clear userData if the error is not just being offline."
KeepsUserData(code) == code = "unavailable"

\* The read is served at some moment between the call and its settling: it
\* sees the document as it was at the call or as it is now.
ServedDocs(k) == {inFlight[k].seen, remote}

\* A read served without connectivity can only come from the local cache.
FromCacheValues == IF onLine THEN BOOLEAN ELSE {TRUE}

\* Variant: setIsOffline(userDocSnap.metadata.fromCache) without the test of
\* currentOnlineStatus.
GetDocExistsFromCacheAlways(k, docSnap, fromCache) ==
    /\ docSnap # NoDoc
    /\ userData' = Merge([uid |-> uid], docSnap)
    /\ fetchError' = NoError
    /\ isOffline' = fromCache
    /\ loading' = FALSE
    /\ effectDue' = TRUE
    /\ lastOutcome' = Outcome(IF fromCache THEN "FromCache" ELSE "Fresh")

\* The document exists: the profile is set, the error cleared, and isOffline
\* follows metadata.fromCache if the browser was online at the call.
GetDocExists(k, docSnap, fromCache) ==
    /\ docSnap # NoDoc
    /\ userData' = Merge([uid |-> uid], docSnap)
    /\ fetchError' = NoError
    /\ isOffline' = IF inFlight[k].online THEN fromCache ELSE isOffline
    /\ loading' = FALSE
    /\ effectDue' = TRUE      \* a new object in userData
    /\ lastOutcome' = Outcome(IF fromCache THEN "FromCache" ELSE "Fresh")

GetDocNotFound(k, docSnap) ==
    /\ docSnap = NoDoc
    /\ userData' = Null
    /\ fetchError' = t("user_data_not_found")
    /\ loading' = FALSE
    /\ lastOutcome' = Outcome("NotFound")
    /\ UNCHANGED isOffline
    /\ effectDue' = (effectDue \/ DepsChanged)

GetDocResolves ==
    \E k \in 1..Len(inFlight) :
        /\ \E docSnap \in ServedDocs(k) :
               \/ \E fromCache \in FromCacheValues : GetDocExists(k, docSnap, fromCache)
               \/ GetDocNotFound(k, docSnap)
        /\ inFlight' = RemoveAt(inFlight, k)
        /\ UNCHANGED <<onLine, mounted, hUserData, hFetchError, onlineListeners>>
        /\ UNCHANGED <<enrollVars, remoteVars, pipes>>
        /\ NoLcToast /\ NoEnrollToast
    /\ ChildrenFollow

\* Variant: setIsOffline(isCurrentlyOfflineError) without navigator.onLine.
GetDocCatchByCodeOnly(code) ==
    /\ isOffline' = (code = "unavailable")
    /\ fetchError' = UiError(code)
    /\ userData' = IF KeepsUserData(code) THEN userData ELSE Null
    /\ loading' = FALSE
    /\ effectDue' = (effectDue \/ DepsChanged)
    /\ lastOutcome' = Outcome(code)

GetDocCatch(code) ==
    /\ isOffline' = ((code = "unavailable") \/ ~onLine)
    /\ fetchError' = UiError(code)
    /\ userData' = IF KeepsUserData(code) THEN userData ELSE Null
    /\ loading' = FALSE
    /\ effectDue' = (effectDue \/ DepsChanged)
    /\ lastOutcome' = Outcome(code)

GetDocRejects ==
    \E k \in 1..Len(inFlight) :
        /\ \E code \in ErrorCodes : GetDocCatch(code)
        /\ inFlight' = RemoveAt(inFlight, k)
        /\ UNCHANGED <<onLine, mounted, hUserData, hFetchError, onlineListeners>>
        /\ UNCHANGED <<enrollVars, remoteVars, pipes>>
        /\ NoLcToast /\ NoEnrollToast
    /\ ChildrenFollow

(***************************************************************************)
(* Dashboard: the handlers of the enrollment card.  Each leaves the        *)
(* profile-synchronisation state alone.                                    *)
(***************************************************************************)
handleImageCapture(imageSrc) ==
    /\ capturedImage' = imageSrc
    /\ showWebcam' = FALSE
    /\ livenessCheckRequired' = TRUE
    /\ UNCHANGED processing

\* Variant: handleLivenessFailure without setCapturedImage(null).
handleLivenessFailureKeepsImage ==
    /\ processing' = FALSE
    /\ livenessCheckRequired' = FALSE
    /\ UNCHANGED <<capturedImage, showWebcam>>

\* Variant: onLivenessFailure leaves the session as it is.
handleLivenessFailureKeepsSession ==
    UNCHANGED <<processing, livenessCheckRequired, capturedImage, showWebcam>>

handleLivenessFailure ==
    /\ processing' = FALSE
    /\ livenessCheckRequired' = FALSE
    /\ capturedImage' = NoImage
    /\ UNCHANGED showWebcam

\* The "register face" / "update face" button.
OpenWebcam ==
    /\ RegisterButtonEnabled
    /\ showWebcam' = TRUE
    /\ UNCHANGED <<capturedImage, processing, livenessCheckRequired>>
    /\ UNCHANGED <<syncVars, remoteVars, pipes>>
    /\ Quiet
    /\ ChildrenFollow

(***************************************************************************)
(* WebcamCapture.                                                          *)
(***************************************************************************)
WcHandleUserMedia ==
    /\ WebcamMounted
    /\ wc.stream = "requesting"
    /\ UNCHANGED <<syncVars, enrollVars, remoteVars, pipes>>
    /\ Quiet
    /\ ChildrenFollowWith([wc EXCEPT !.stream = "active", !.cameraReady = TRUE,
                                     !.error = NoError], lc, pending)

WcHandleUserMediaError ==
    /\ WebcamMounted
    /\ wc.stream = "requesting"
    /\ UNCHANGED <<syncVars, enrollVars, remoteVars, pipes>>
    /\ Quiet
    /\ \E msg \in {t("failed_to_access_webcam"), t("webcam_permission_denied"),
                   t("no_webcam_found")} :
           ChildrenFollowWith([wc EXCEPT !.stream = "failed", !.cameraReady = FALSE,
                                         !.error = msg], lc, pending)

\* getScreenshot() gives a frame only from an active stream, and null while
\* the video has no data yet.
Screenshots == IF wc.stream = "active" THEN Images \cup {NoImage} ELSE {NoImage}

capture ==
    /\ WebcamMounted
    /\ wc.imgSrc = NoImage /\ wc.cameraReady /\ wc.error = NoError
    /\ UNCHANGED <<syncVars, enrollVars, remoteVars, pipes>>
    /\ Quiet
    /\ \E imageSrc \in Screenshots :
           IF imageSrc # NoImage
           THEN \* the Webcam element is replaced by the <img>
                ChildrenFollowWith([wc EXCEPT !.imgSrc = imageSrc, !.stream = "none"],
                                   lc, pending)
           ELSE ChildrenFollow

retake ==
    /\ WebcamMounted
    /\ wc.imgSrc # NoImage
    /\ UNCHANGED <<syncVars, enrollVars, remoteVars, pipes>>
    /\ Quiet
    /\ ChildrenFollowWith([wc EXCEPT !.imgSrc = NoImage, !.stream = "requesting"],
                          lc, pending)

confirmCapture ==
    /\ WebcamMounted
    /\ wc.imgSrc # NoImage
    /\ handleImageCapture(wc.imgSrc)
    /\ UNCHANGED <<syncVars, remoteVars, pipes>>
    /\ Quiet
    /\ ChildrenFollow

\* Variant: onCancel={() => {}}.
WcCancelNoop ==
    /\ WebcamMounted
    /\ wc.imgSrc = NoImage
    /\ UNCHANGED <<showWebcam, capturedImage, processing, livenessCheckRequired>>
    /\ UNCHANGED <<syncVars, remoteVars, pipes>>
    /\ Quiet
    /\ ChildrenFollow

\* onCancel={() => setShowWebcam(false)}; the button is shown beside capture.
WcCancel ==
    /\ WebcamMounted
    /\ wc.imgSrc = NoImage
    /\ showWebcam' = FALSE
    /\ UNCHANGED <<capturedImage, processing, livenessCheckRequired>>
    /\ UNCHANGED <<syncVars, remoteVars, pipes>>
    /\ Quiet
    /\ ChildrenFollow

(***************************************************************************)
(* LivenessCheck: camera, recording, timers.                               *)
(***************************************************************************)
LcHandleUserMedia ==
    /\ LivenessMounted
    /\ lc.stream = "requesting"
    /\ UNCHANGED <<syncVars, enrollVars, remoteVars, pipes>>
    /\ Quiet
    /\ ChildrenFollowWith(wc, [lc EXCEPT !.stream = "active", !.cameraReady = TRUE,
                                         !.error = NoError], pending)

\* "Fail if camera error occurs": onLivenessFailure() is called.
LcHandleUserMediaError ==
    /\ LivenessMounted
    /\ lc.stream = "requesting"
    /\ handleLivenessFailure
    /\ UNCHANGED <<syncVars, remoteVars, pipes>>
    /\ NoOutcome /\ NoEnrollToast
    /\ \E msg \in {t("failed_to_access_webcam"), t("webcam_permission_denied"),
                   t("no_webcam_found")} :
           /\ lcToast' = Toast(t("webcam_error"), msg)
           /\ ChildrenFollowWith(wc, [lc EXCEPT !.stream = "failed",
                                                !.cameraReady = FALSE,
                                                !.error = msg], pending)

\* The start button: rendered while neither recording nor processing,
\* disabled={!cameraReady || !!error}.
startRecording ==
    /\ LivenessMounted
    /\ ~lc.isRecording /\ ~lc.isProcessing
    /\ lc.cameraReady /\ lc.error = NoError
    /\ Len(pending) < MaxPending
    /\ UNCHANGED <<syncVars, enrollVars, remoteVars, pipes>>
    /\ NoOutcome /\ NoEnrollToast
    /\ IF lc.stream # "active"
       THEN /\ lcToast' = Toast(t("error"), t("camera_stream_not_available"))
            /\ ChildrenFollowWith(wc,
                   [lc EXCEPT !.error = t("camera_stream_not_available")], pending)
       ELSE /\ NoLcToast
            /\ ChildrenFollowArming(wc,
                   [lc EXCEPT !.error = NoError,
                              !.isRecording = TRUE,
                              !.progress = 0,
                              !.clock = 0,
                              !.recorder = "recording",
                              !.progressInterval = TRUE,
                              !.recordingTimeout = TRUE,
                              \* the 'stop' listener is the handleRecordingStop
                              \* of this render, with this render's state and props
                              !.stopChunks = lc.recordedChunks,
                              !.cbImage = capturedImage], pending, 1)

\* The stop button: mediaRecorderRef.current?.stop().
stopRecording ==
    /\ LivenessMounted
    /\ lc.isRecording /\ ~lc.isProcessing
    /\ lc.recorder = "recording"
    /\ UNCHANGED <<syncVars, enrollVars, remoteVars, pipes>>
    /\ Quiet
    /\ ChildrenFollowWith(wc, [lc EXCEPT !.recorder = "inactive"],
                          Append(pending, StopEvent(lc, TRUE)))

Min(a, b) == IF a < b THEN a ELSE b

\* Variant: the percentage without Math.min.
currentProgressUnclamped(elapsedTime) ==
    (elapsedTime * 100) \div RECORDING_DURATION_MS

\* currentProgress of the interval callback.
currentProgress(elapsedTime) ==
    Min(100, (elapsedTime * 100) \div RECORDING_DURATION_MS)

\* The interval callback fires: it reads the time, which is not earlier than
\* at the last reading, and sets progress.
ProgressTick ==
    /\ LivenessMounted
    /\ lc.progressInterval
    /\ UNCHANGED <<syncVars, enrollVars, remoteVars, pipes>>
    /\ Quiet
    /\ \E now \in {i * TimeUnit : i \in 0..MaxElapsed} :
           /\ now >= lc.clock
           /\ ChildrenFollowWith(wc, [lc EXCEPT !.clock = now,
                                                !.progress = currentProgress(now)],
                                 pending)

\* Variant: the timeout callback without mediaRecorderRef.current.stop().
RecordingTimeoutWithoutStop ==
    /\ LivenessMounted
    /\ lc.recordingTimeout
    /\ UNCHANGED <<syncVars, enrollVars, remoteVars, pipes>>
    /\ Quiet
    /\ ChildrenFollowWith(wc,
           [lc EXCEPT !.recordingTimeout = FALSE,
                      !.progressInterval = FALSE,
                      !.progress = 100],
           pending)

\* The timeout of RECORDING_DURATION_MS fires: the recorder is stopped if still
\* recording, the interval cleared and progress set to 100.
RecordingTimeout ==
    /\ LivenessMounted
    /\ lc.recordingTimeout
    /\ UNCHANGED <<syncVars, enrollVars, remoteVars, pipes>>
    /\ Quiet
    /\ ChildrenFollowWith(wc,
           [lc EXCEPT !.recordingTimeout = FALSE,
                      !.recorder = IF @ = "recording" THEN "inactive" ELSE @,
                      !.progressInterval = FALSE,
                      !.progress = 100],
           IF lc.recorder = "recording"
           THEN Append(pending, StopEvent(lc, TRUE))
           ELSE pending)

\* The cancel button beside the start button: onClick={onLivenessFailure}.
LcCancel ==
    /\ LivenessMounted
    /\ ~lc.isRecording /\ ~lc.isProcessing
    /\ handleLivenessFailure
    /\ UNCHANGED <<syncVars, remoteVars, pipes>>
    /\ Quiet
    /\ ChildrenFollow

(***************************************************************************)
(* LivenessCheck: handleRecordingStop and the verdict.                     *)
(***************************************************************************)
Includes(seq, a) == \E i \in DOMAIN seq : seq[i] = a

\* result.performedActions?.includes(action)
PerformedIncludes(result, action) ==
    /\ "performedActions" \in DOMAIN result
    /\ Includes(result.performedActions, action)

\* Variant: ACTIONS_TO_PERFORM.some in place of every.
allActionsPerformedSome(result) ==
    \E i \in DOMAIN ACTIONS_TO_PERFORM :
        PerformedIncludes(result, ACTIONS_TO_PERFORM[i])

allActionsPerformed(result) ==
    \A i \in DOMAIN ACTIONS_TO_PERFORM :
        PerformedIncludes(result, ACTIONS_TO_PERFORM[i])

\* Variant: the filter without its negation.
missingActionsPerformed(result) ==
    SelectSeq(ACTIONS_TO_PERFORM, LAMBDA action : PerformedIncludes(result, action))

missingActions(result) ==
    SelectSeq(ACTIONS_TO_PERFORM, LAMBDA action : ~PerformedIncludes(result, action))

LivenessPassed(result) == result.isLive /\ allActionsPerformed(result)

\* failureReason: what the failure toast says.
failureReason(result) ==
    IF ~allActionsPerformed(result)
    THEN [title |-> t("failed"), notLive |-> ~result.isLive,
          missing |-> missingActions(result)]
    ELSE [title |-> t("failed"), notLive |-> ~result.isLive]

\* The values the verifier may return: isLive, and performedActions in any
\* order, with repetitions and extra actions, or missing from the result.
RECURSIVE SeqsUpTo(_, _)
SeqsUpTo(S, n) ==
    IF n = 0 THEN {<<>>}
    ELSE LET shorter == SeqsUpTo(S, n - 1)
         IN  shorter \cup {Append(q, x) : q \in {r \in shorter : Len(r) = n - 1}, x \in S}

VerifierResults ==
    {[isLive |-> b, performedActions |-> acts] :
         b \in BOOLEAN, acts \in SeqsUpTo(LivenessAction, MaxPerformed)}
    \cup {[isLive |-> b] : b \in BOOLEAN}

\* event.data of the dataavailable event: its size.
DataSizes == {0, 1}

\* The dataavailable listener: if (event.data.size > 0) append to recordedChunks.
Delivered(size) == IF size > 0 THEN <<size>> ELSE <<>>

\* After a pending item k was handled: it is dropped, or replaced by the
\* next asynchronous step.
Dropped(k) == RemoveAt(pending, k)
Replaced(k, kind, chunks) ==
    [pending EXCEPT ![k] = [@ EXCEPT !.kind = kind, !.chunks = chunks]]

\* State setters reach the component only while it is mounted and the item
\* belongs to it.
Live(k) == LivenessMounted /\ pending[k].cur

\* Variant: the recording is never taken to be empty.
NoRecordingDataNever(seen) == FALSE

\* if (recordedChunks.length === 0)
NoRecordingData(seen) == Len(seen) = 0

\* handleRecordingStop, reading `seen` as recordedChunks.
handleRecordingStop(k, size, seen) ==
    LET l1 == IF Live(k)
              THEN [lc EXCEPT !.recordedChunks = @ \o Delivered(size),
                              !.isRecording = FALSE,
                              !.isProcessing = TRUE,
                              !.progressInterval = FALSE]
              ELSE lc
    IN  IF NoRecordingData(seen)
        THEN \* onLivenessFailure(), the verifier is not called
             /\ lcToast' = Toast(t("error"), t("no_video_data_recorded"))
             /\ handleLivenessFailure
             /\ ChildrenFollowWith(wc,
                    IF Live(k)
                    THEN [l1 EXCEPT !.error = t("no_video_data_recorded"),
                                    !.isProcessing = FALSE]
                    ELSE l1,
                    Dropped(k))
        ELSE \* new Blob(recordedChunks); setRecordedChunks([]); readAsDataURL
             /\ NoLcToast
             /\ UNCHANGED enrollVars
             /\ ChildrenFollowWith(wc,
                    IF Live(k) THEN [l1 EXCEPT !.recordedChunks = <<>>] ELSE l1,
                    Replaced(k, "read", seen))

\* The recorder delivers dataavailable, then stop.  The listener registered
\* for stop is the handleRecordingStop captured by startRecording: it reads
\* the recordedChunks of that render, not the chunk just delivered.
RecorderStopsWith(k, size) ==
    /\ pending[k].kind = "stop"
    /\ UNCHANGED <<syncVars, remoteVars, pipes>>
    /\ NoOutcome /\ NoEnrollToast
    /\ handleRecordingStop(k, size, pending[k].chunks)

RecorderStopEvent ==
    \E k \in 1..Len(pending), size \in DataSizes : RecorderStopsWith(k, size)

\* The same event with handleRecordingStop reading the chunks the recorder
\* delivered, which is what the comment above it intends ("to avoid potential
\* stale closures").
RecorderStopsFreshWith(k, size) ==
    /\ pending[k].kind = "stop"
    /\ UNCHANGED <<syncVars, remoteVars, pipes>>
    /\ NoOutcome /\ NoEnrollToast
    /\ handleRecordingStop(k, size,
           IF Live(k) THEN lc.recordedChunks \o Delivered(size)
                      ELSE Delivered(size))

RecorderStopEventFresh ==
    \E k \in 1..Len(pending), size \in DataSizes : RecorderStopsFreshWith(k, size)

\* reader.onloadend: performLivenessDetection is called with the data URI and
\* ACTIONS_TO_PERFORM.
ReaderLoads ==
    \E k \in 1..Len(pending) :
        /\ pending[k].kind = "read"
        /\ lcToast' = Toast(t("processing"), t("analyzing_video_for_liveness"))
        /\ UNCHANGED <<syncVars, enrollVars, remoteVars, pipes>>
        /\ NoOutcome /\ NoEnrollToast
        /\ ChildrenFollowWith(wc, lc, Replaced(k, "verify", pending[k].chunks))

\* reader.onerror: the failure is reported; loadend follows the error event,
\* so reader.onloadend runs as well and calls performLivenessDetection with
\* reader.result, which is null: a call "verifyNull".
ReaderFailsAt(k) ==
    /\ pending[k].kind = "read"
    /\ UNCHANGED <<syncVars, remoteVars, pipes>>
    /\ NoOutcome /\ NoEnrollToast
    /\ lcToast' = Toast(t("error"), t("failed_to_process_video_data"))
    /\ handleLivenessFailure
    /\ ChildrenFollowWith(wc,
           IF Live(k) THEN [lc EXCEPT !.error = t("failed_to_process_video_data"),
                                      !.isProcessing = FALSE]
                      ELSE lc,
           Replaced(k, "verifyNull", pending[k].chunks))

ReaderFails == \E k \in 1..Len(pending) : ReaderFailsAt(k)

(***************************************************************************)
(* Dashboard: handleLivenessSuccess, one action per await.                 *)
(***************************************************************************)
\* Variant: the start without setProcessing(true) and
\* setLivenessCheckRequired(false).
handleLivenessSuccessInBackground(cImage) ==
    /\ IsImage(cImage)
    /\ Len(pipes) < MaxPipes
    /\ pipes' = Append(pipes, [pc |-> "extract", image |-> cImage,
                               facialFeatures |-> <<>>, imageUrl |-> "",
                               calls |-> <<"extractFacialFeatures">>,
                               heldBefore |-> userData])
    /\ UNCHANGED <<processing, livenessCheckRequired, showWebcam, capturedImage>>

\* The synchronous start.  cImage is capturedImage in the closure of the
\* callback; user and userData of that closure are not null, since
\* LivenessCheck is rendered only with a profile held.  heldBefore records
\* the profile held when the run starts.
handleLivenessSuccess(cImage) ==
    /\ IsImage(cImage)
    /\ Len(pipes) < MaxPipes
    /\ processing' = TRUE
    /\ livenessCheckRequired' = FALSE
    /\ pipes' = Append(pipes, [pc |-> "extract", image |-> cImage,
                               facialFeatures |-> <<>>, imageUrl |-> "",
                               calls |-> <<"extractFacialFeatures">>,
                               heldBefore |-> userData])
    /\ UNCHANGED <<showWebcam, capturedImage>>

\* The verifier returned `result`.
VerifierVerdict(k, result) ==
    IF LivenessPassed(result)
    THEN /\ lcToast' = Toast(t("success"), t("liveness_check_successful"))
         /\ handleLivenessSuccess(pending[k].image)
         /\ ChildrenFollowWith(wc,
                IF Live(k) THEN [lc EXCEPT !.isProcessing = FALSE] ELSE lc,
                Dropped(k))
    ELSE /\ lcToast' = failureReason(result)
         /\ handleLivenessFailure
         /\ UNCHANGED pipes
         /\ ChildrenFollowWith(wc,
                IF Live(k) THEN [lc EXCEPT !.error = t("liveness_check_failed"),
                                           !.isProcessing = FALSE]
                           ELSE lc,
                Dropped(k))

\* The flow's input schema wants a string: it returns a result only to a
\* call with a data URI.
VerifierReturnsWith(k, result) ==
    /\ pending[k].kind = "verify"
    /\ UNCHANGED <<syncVars, remoteVars>>
    /\ NoOutcome /\ NoEnrollToast
    /\ VerifierVerdict(k, result)

VerifierReturns ==
    \E k \in 1..Len(pending), result \in VerifierResults :
        VerifierReturnsWith(k, result)

\* Variant: the catch block reporting a rejection with every action missing.
VerifierThrowsAsRejectedAt(k) ==
    /\ pending[k].kind \in {"verify", "verifyNull"}
    /\ UNCHANGED <<syncVars, remoteVars, pipes>>
    /\ NoOutcome /\ NoEnrollToast
    /\ lcToast' = failureReason([isLive |-> TRUE])
    /\ handleLivenessFailure
    /\ ChildrenFollowWith(wc,
           IF Live(k) THEN [lc EXCEPT !.error = t("liveness_check_failed"),
                                      !.isProcessing = FALSE]
                      ELSE lc,
           Dropped(k))

\* performLivenessDetection throws: the catch block.
VerifierThrowsAt(k) ==
    /\ pending[k].kind \in {"verify", "verifyNull"}
    /\ UNCHANGED <<syncVars, remoteVars, pipes>>
    /\ NoOutcome /\ NoEnrollToast
    /\ lcToast' = Toast(t("error"), t("error_during_liveness_detection"))
    /\ handleLivenessFailure
    /\ ChildrenFollowWith(wc,
           IF Live(k) THEN [lc EXCEPT !.error = t("error_during_liveness_detection"),
                                      !.isProcessing = FALSE]
                      ELSE lc,
           Dropped(k))

VerifierThrows == \E k \in 1..Len(pending) : VerifierThrowsAt(k)

\* What the extractor may return: a feature vector, possibly empty, or an
\* output without one.
FeatureVectors == {[i \in 1..n |-> i] : n \in 0..MaxFeatureLen}
NoFeaturesOutput == [usage |-> 0]
ExtractorOutputs ==
    {[facialFeatures |-> f] : f \in FeatureVectors} \cup {NoFeaturesOutput}

\* Variant: if (!facialFeatures) throw ..., an empty vector accepted.
ExtractionFailedIfMissing(out) == "facialFeatures" \notin DOMAIN out

\* if (!facialFeatures || facialFeatures.length === 0) throw ...
ExtractionFailed(out) ==
    \/ "facialFeatures" \notin DOMAIN out
    \/ Len(out.facialFeatures) = 0

StorageErrorCodes == {"storage/unauthorized", "storage/unknown"}
UpdateErrorCodes == {"permission-denied", "unavailable", "not-found"}

\* Variant: errorMessage chosen by error.code alone.
errorMessageByCode(error) ==
    IF "code" \in DOMAIN error
         /\ error.code \in {"storage/unauthorized", "permission-denied"}
    THEN Toast(t("error"), t("storage_permission_error"))
    ELSE IF "code" \in DOMAIN error
    THEN [title |-> t("error"), description |-> t("failed_to_register_face_generic"),
          code |-> error.code]
    ELSE Toast(t("error"), t("failed_to_register_face_generic"))

\* errorMessage of the catch block of handleLivenessSuccess.
errorMessage(error) ==
    IF "message" \in DOMAIN error /\ error.message = t("failed_to_extract_features")
    THEN Toast(t("error"), t("could_not_detect_face"))
    ELSE IF "code" \in DOMAIN error
              /\ error.code \in {"storage/unauthorized", "permission-denied"}
    THEN Toast(t("error"), t("storage_permission_error"))
    ELSE IF "code" \in DOMAIN error
    THEN [title |-> t("error"), description |-> t("failed_to_register_face_generic"),
          code |-> error.code]
    ELSE Toast(t("error"), t("failed_to_register_face_generic"))

\* Variant: the catch block without setCapturedImage(null).
PipeFailsKeepsImage(i, error) ==
    /\ enrollToast' = errorMessage(error)
    /\ processing' = FALSE
    /\ pipes' = RemoveAt(pipes, i)
    /\ UNCHANGED <<showWebcam, livenessCheckRequired, capturedImage>>
    /\ UNCHANGED <<syncVars, remoteVars>>
    /\ NoOutcome /\ NoLcToast
    /\ ChildrenFollow

\* catch and finally: the toast, setCapturedImage(null), setProcessing(false).
PipeFails(i, error) ==
    /\ enrollToast' = errorMessage(error)
    /\ capturedImage' = NoImage
    /\ processing' = FALSE
    /\ pipes' = RemoveAt(pipes, i)
    /\ UNCHANGED <<showWebcam, livenessCheckRequired>>
    /\ UNCHANGED <<syncVars, remoteVars>>
    /\ NoOutcome /\ NoLcToast
    /\ ChildrenFollow

\* A step succeeded and the next call is issued.
PipeAdvances(i, next) ==
    /\ pipes' = [pipes EXCEPT ![i] = next]
    /\ UNCHANGED <<enrollVars, syncVars>>
    /\ Quiet
    /\ ChildrenFollow

\* The step of pipe p after `call` was issued.
Issue(p, pc, call) == [p EXCEPT !.pc = pc, !.calls = Append(@, call)]

\* extractFacialFeatures returns `out` to run i.
ExtractReturnsWith(i, out) ==
    /\ pipes[i].pc = "extract"
    /\ IF ExtractionFailed(out)
       THEN PipeFails(i, [message |-> t("failed_to_extract_features")])
       ELSE /\ UNCHANGED remoteVars
            /\ PipeAdvances(i, [Issue(pipes[i], "upload", "uploadString")
                                  EXCEPT !.facialFeatures = out.facialFeatures])

ExtractReturns ==
    \E i \in 1..Len(pipes), out \in ExtractorOutputs : ExtractReturnsWith(i, out)

ExtractThrows ==
    \E i \in 1..Len(pipes) :
        /\ pipes[i].pc = "extract"
        /\ PipeFails(i, [message |-> "extractor failed"])

\* Variant: a run after a rejected updateDoc reuses the object already stored.
UploadResolvesReusingStored ==
    \E i \in 1..Len(pipes) :
        /\ pipes[i].pc = "upload"
        /\ blob' = IF updateRejected THEN blob ELSE pipes[i].image
        /\ UNCHANGED remote
        /\ PipeAdvances(i, Issue(pipes[i], "url", "getDownloadURL"))

\* uploadString(imageRef, capturedImage, 'data_url') resolves: the object is
\* stored under the user's key.
UploadResolves ==
    \E i \in 1..Len(pipes) :
        /\ pipes[i].pc = "upload"
        /\ blob' = pipes[i].image
        /\ UNCHANGED remote
        /\ PipeAdvances(i, Issue(pipes[i], "url", "getDownloadURL"))

UploadRejects ==
    \E i \in 1..Len(pipes), code \in StorageErrorCodes :
        /\ pipes[i].pc = "upload"
        /\ PipeFails(i, [code |-> code])

UrlResolves ==
    \E i \in 1..Len(pipes) :
        /\ pipes[i].pc = "url"
        /\ UNCHANGED remoteVars
        /\ PipeAdvances(i, [Issue(pipes[i], "update", "updateDoc")
                              EXCEPT !.imageUrl = DownloadUrl])

UrlRejects ==
    \E i \in 1..Len(pipes), code \in StorageErrorCodes :
        /\ pipes[i].pc = "url"
        /\ PipeFails(i, [code |-> code])

\* Variant: updateData without facialFeatures.
updateDataWithoutFeatures(p) ==
    [faceRegistered |-> TRUE, faceImageUrl |-> p.imageUrl]

\* updateData of handleLivenessSuccess.
updateData(p) ==
    [faceRegistered |-> TRUE, faceImageUrl |-> p.imageUrl,
     facialFeatures |-> p.facialFeatures]

\* Variant: { ...prev, faceRegistered: true, faceImageUrl: imageUrl }.
MergedUserDataUrlOnly(prev, data) ==
    IF prev # Null
    THEN Merge(prev, [faceRegistered |-> TRUE, faceImageUrl |-> data.faceImageUrl])
    ELSE Null

\* Variant: setUserData(prev => prev ? updateData : null).
MergedUserDataReplaced(prev, data) == IF prev # Null THEN data ELSE Null

\* setUserData(prev => prev ? { ...prev, ...updateData } : null)
MergedUserData(prev, data) == IF prev # Null THEN Merge(prev, data) ELSE Null

\* updateDoc resolves: the document has the fields, then the local state is
\* updated and the captured image cleared.
UpdateResolves ==
    \E i \in 1..Len(pipes) :
        /\ pipes[i].pc = "update"
        /\ remote # NoDoc
        /\ remote' = Merge(remote, updateData(pipes[i]))
        /\ userData' = MergedUserData(userData, updateData(pipes[i]))
        /\ effectDue' = (effectDue \/ userData # Null)
        /\ capturedImage' = NoImage
        /\ processing' = FALSE
        /\ enrollToast' = Toast(t("success"), t("face_registered_successfully"))
        /\ pipes' = RemoveAt(pipes, i)
        /\ UNCHANGED <<showWebcam, livenessCheckRequired, blob>>
        /\ UNCHANGED <<loading, isOffline, fetchError, onLine, mounted, hUserData,
                       hFetchError, onlineListeners, inFlight>>
        /\ NoOutcome /\ NoLcToast
        /\ ChildrenFollow

UpdateRejects ==
    \E i \in 1..Len(pipes), code \in UpdateErrorCodes :
        /\ pipes[i].pc = "update"
        /\ PipeFails(i, [code |-> code])

\* UpdateRejects, recording in updateRejected that it happened.
UpdateRejectsNoted ==
    \E i \in 1..Len(pipes), code \in UpdateErrorCodes :
        /\ pipes[i].pc = "update"
        /\ enrollToast' = errorMessage([code |-> code])
        /\ capturedImage' = NoImage
        /\ processing' = FALSE
        /\ pipes' = RemoveAt(pipes, i)
        /\ UNCHANGED <<showWebcam, livenessCheckRequired>>
        /\ UNCHANGED <<syncVars, remoteVars>>
        /\ NoOutcome /\ NoLcToast
        /\ ChildrenCommit(wc, lc, pending, 0)
        /\ updateRejected' = TRUE

(***************************************************************************)
(* Dashboard with its two camera components as environment: a component is *)
(* represented by the callback it calls.                                   *)
(***************************************************************************)
RerunImages == {[frame |-> i] : i \in 1..NumRerunImages}

\* WebcamCapture calls onCapture with the frame the user confirmed.
ImageCaptured ==
    \E imageSrc \in RerunImages :
        /\ WebcamMounted
        /\ handleImageCapture(imageSrc)
        /\ UNCHANGED <<syncVars, remoteVars, pipes>>
        /\ Quiet
        /\ ChildrenFollow

\* LivenessCheck, mounted, calls onLivenessSuccess.
LivenessPasses ==
    /\ LivenessMounted
    /\ handleLivenessSuccess(capturedImage)
    /\ UNCHANGED <<syncVars, remoteVars>>
    /\ Quiet
    /\ ChildrenFollow

(***************************************************************************)
(* Specification.                                                          *)
(***************************************************************************)
Init ==
    /\ userData = Null
    /\ loading = TRUE
    /\ isOffline = FALSE
    /\ fetchError = NoError
    /\ showWebcam = FALSE
    /\ capturedImage = NoImage
    /\ processing = FALSE
    /\ livenessCheckRequired = FALSE
    /\ onLine \in BOOLEAN
    /\ effectDue = FALSE
    /\ mounted = FALSE
    /\ unmounted = FALSE
    /\ hUserData = Null
    /\ hFetchError = NoError
    /\ onlineListeners = 0
    /\ inFlight = <<>>
    /\ lastOutcome = NoneSettled
    /\ remote \in {NoDoc, FreshRecord}
    /\ blob = NoBlob
    /\ wc = WcGone
    /\ lc = LcGone
    /\ pending = <<>>
    /\ timers = NoTimers
    /\ issued = FALSE
    /\ updateRejected = FALSE
    /\ lcToast = NoToast
    /\ pipes = <<>>
    /\ enrollToast = NoToast

Next ==
    \/ MountEffects
    \/ EffectRun
    \/ GoOnline
    \/ GoOffline
    \/ Retry
    \/ GetDocResolves
    \/ GetDocRejects
    \/ OpenWebcam
    \/ WcHandleUserMedia
    \/ WcHandleUserMediaError
    \/ capture
    \/ retake
    \/ confirmCapture
    \/ WcCancel
    \/ LcHandleUserMedia
    \/ LcHandleUserMediaError
    \/ startRecording
    \/ stopRecording
    \/ RecordingTimeout
    \/ LcCancel
    \/ RecorderStopEvent

\* The program as written.
Spec == Init /\ [][Next]_vars

\* The program where handleRecordingStop may also read the delivered chunks:
\* every behaviour of Spec, and those in which a recording reaches the verifier
\* and the enrollment pipeline.
NextFresh ==
    \/ Next
    \/ RecorderStopEventFresh
    \/ ReaderLoads
    \/ ReaderFails
    \/ VerifierReturns
    \/ VerifierThrows
    \/ ExtractReturns
    \/ ExtractThrows
    \/ UploadResolves
    \/ UploadRejects
    \/ UrlResolves
    \/ UrlRejects
    \/ UpdateResolves
    \/ UpdateRejects

SpecFresh == Init /\ [][NextFresh]_vars

\* The program as written together with the progress callback of the
\* interval, which changes progress and nothing any other step reads.
NextTimed ==
    \/ Next
    \/ ProgressTick

SpecTimed == Init /\ [][NextTimed]_vars

\* The program as written over one whole lifetime of Dashboard, its unmount
\* included.
NextLifetime ==
    \/ Next
    \/ Unmount

SpecLifetime == Init /\ [][NextLifetime]_vars

\* Dashboard left alone after its mount: no connectivity event, no retry, no
\* enrollment; its loads settle, successfully or not.
NextLoadsOnly ==
    \/ MountEffects
    \/ EffectRun
    \/ GetDocResolves
    \/ GetDocRejects

SpecLoadsOnly == Init /\ [][NextLoadsOnly]_vars

\* Repeated enrollment attempts of Dashboard, online, with loads that
\* succeed: the camera components call back with any of NumRerunImages frames,
\* and every call of the pipeline may fail.
NextRerun ==
    \/ MountEffects
    \/ EffectRun
    \/ GetDocResolves
    \/ OpenWebcam
    \/ ImageCaptured
    \/ LivenessPasses
    \/ ExtractReturns
    \/ ExtractThrows
    \/ UploadResolves
    \/ UploadRejects
    \/ UrlResolves
    \/ UrlRejects
    \/ UpdateResolves
    \/ UpdateRejectsNoted

SpecRerun == Init /\ [][NextRerun]_vars

\* The program as written where a timeout set with setTimeout fires: the
\* browser runs the callback of a timer that stays armed.
SpecTimeoutFires == Spec /\ WF_vars(RecordingTimeout)

(***************************************************************************)
(* Properties.                                                             *)
(***************************************************************************)
Range(seq) == {seq[i] : i \in DOMAIN seq}

RequiredActions == Range(ACTIONS_TO_PERFORM)

\* The actions a verifier result reports; none when it carries no list.
ReportedActions(result) ==
    IF "performedActions" \in DOMAIN result
    THEN Range(result.performedActions)
    ELSE {}

SuccessToast == Toast(t("success"), t("liveness_check_successful"))
RegisteredToast == Toast(t("success"), t("face_registered_successfully"))

\* onLivenessSuccess was called in the step: a run of handleLivenessSuccess
\* began.
SuccessReported == lcToast' = SuccessToast /\ Len(pipes') = Len(pipes) + 1

\* The result is live and reports every required action.
LiveWithAllRequired(result) ==
    result.isLive /\ RequiredActions \subseteq ReportedActions(result)

\* C1: whenever the verifier returns a result, success is reported if and
\* only if result.isLive holds and every required action is among the
\* reported ones, whatever their order and whatever else is reported: no step
\* in which a verifier call returns `result` reports success without this,
\* or fails to report success with it.
SuccessIffLiveAndAllRequired ==
    \A k \in 1..Len(pending) :
        pending[k].kind = "verify" =>
            \A result \in VerifierResults :
                ~ENABLED (/\ VerifierReturnsWith(k, result)
                          /\ SuccessReported <=> ~LiveWithAllRequired(result))

\* C1 witness: a verifier call returned and success was reported.
SuccessWasReported ==
    /\ lcToast = SuccessToast
    /\ Len(pipes) = 1
    /\ pipes[1].pc = "extract"

\* The actions the failure toast lists as missing.
MissingListed(toast) ==
    IF "missing" \in DOMAIN toast THEN Range(toast.missing) ELSE {}

\* The failure toast of the step lists as missing exactly the required
\* actions that `result` does not report, each once.
DiagnosticExact(result) ==
    /\ lcToast'.title = t("failed")
    /\ MissingListed(lcToast') = RequiredActions \ ReportedActions(result)
    /\ "missing" \in DOMAIN lcToast' =>
           Len(lcToast'.missing) = Cardinality(MissingListed(lcToast'))

\* C2: whenever the challenge is rejected after a verifier result, the
\* failure toast lists as missing exactly the required actions that the
\* result does not report: no step in which a verifier call returns `result`
\* and success is not reported raises another diagnostic.
MissingIsRequiredMinusPerformed ==
    \A k \in 1..Len(pending) :
        pending[k].kind = "verify" =>
            \A result \in VerifierResults :
                ~ENABLED (/\ VerifierReturnsWith(k, result)
                          /\ ~SuccessReported
                          /\ ~DiagnosticExact(result))

\* C2 witness: a rejection whose toast lists head_right alone as missing.
RejectedWithHeadRightMissing ==
    /\ lcToast.title = t("failed")
    /\ "missing" \in DOMAIN lcToast
    /\ lcToast.missing = <<"head_right">>

\* The record has faceRegistered = true, an image URL and a feature vector.
HasFace(p) ==
    /\ {"faceRegistered", "faceImageUrl", "facialFeatures"} \subseteq DOMAIN p
    /\ p.faceRegistered = TRUE

FaceFieldsTogether(p) ==
    /\ ("facialFeatures" \in DOMAIN p) <=> ("faceImageUrl" \in DOMAIN p)
    /\ "facialFeatures" \in DOMAIN p => p.faceRegistered = TRUE

\* C4: in every reachable state the remote record and the held profile have
\* facialFeatures and faceImageUrl both absent, or both present together with
\* faceRegistered = true.
FaceFieldsTogetherEverywhere ==
    FaceFieldsTogether(remote) /\ FaceFieldsTogether(userData)

\* C4 witness: after an enrollment, a load has just brought the registered
\* record into the held profile.
RegisteredRecordLoaded ==
    /\ lastOutcome.kind = "Fresh"
    /\ HasFace(remote)
    /\ HasFace(userData)
    /\ userData.facialFeatures = remote.facialFeatures

\* C5: a load that fails with 'unavailable' while a profile is held leaves
\* the held profile as it was, sets the offline flag and sets the error to the
\* offline message.
UnavailableKeepsProfile ==
    [][(lastOutcome'.kind = "unavailable" /\ userData # Null) =>
           /\ userData' = userData
           /\ isOffline' = TRUE
           /\ fetchError' = t("offline_message")]_vars

\* C5 witness: a load failed with 'unavailable' with a profile held.
UnavailableWithProfileHeld ==
    /\ lastOutcome = [kind |-> "unavailable", held |-> TRUE]
    /\ userData # Null
    /\ isOffline
    /\ fetchError = t("offline_message")

\* The ways a load fails other than by 'unavailable', and the error kind the
\* message of each stands for.
ClearingOutcomes == {"permission-denied", "invalid-argument", "NotFound", "internal"}

KindOfOutcome(kind) ==
    IF kind = "permission-denied" THEN "PermissionDenied"
    ELSE IF kind = "invalid-argument" THEN "InvalidArgument"
    ELSE IF kind = "NotFound" THEN "NotFound"
    ELSE "Unknown"

KindOfMessage(message) ==
    IF message = t("permission_denied_error_check_rules") THEN "PermissionDenied"
    ELSE IF message = t("firestore_error_contact_admin") THEN "InvalidArgument"
    ELSE IF message = t("user_data_not_found") THEN "NotFound"
    ELSE IF message = t("failed_to_fetch_user_data_generic") THEN "Unknown"
    ELSE IF message = t("offline_message") THEN "Unavailable"
    ELSE "None"

\* C6: a load that fails otherwise than by 'unavailable' leaves no held
\* profile, and the error is the message of that kind of failure.
OtherFailuresClearProfile ==
    [][lastOutcome'.kind \in ClearingOutcomes =>
           /\ userData' = Null
           /\ KindOfMessage(fetchError') = KindOfOutcome(lastOutcome'.kind)]_vars

\* C6 witness: a load failed with 'permission-denied' while a profile was
\* held, and none is held now.
PermissionDeniedClearedProfile ==
    /\ lastOutcome = [kind |-> "permission-denied", held |-> TRUE]
    /\ userData = Null
    /\ fetchError = t("permission_denied_error_check_rules")

\* The browser goes from offline to online with the listeners of the current
\* render installed.
OnlineTransition ==
    /\ ~onLine /\ onLine'
    /\ onlineListeners > 0
    /\ hUserData = userData /\ hFetchError = fetchError

LoadsStarted == Len(inFlight') - Len(inFlight)

\* C7 as stated: an online transition with the profile missing or an error
\* set starts exactly one load: the handler issues one getDoc, and its commit
\* changes no dependency of the effect that calls fetchUserData.
OnlineStartsExactlyOneLoad ==
    [][(OnlineTransition /\ (userData = Null \/ fetchError # NoError)) =>
           (LoadsStarted = 1 /\ ~DepsChanged)]_vars

\* C8 as stated: an online transition with a profile held and no error
\* starts no load: the handler issues no getDoc, and its commit changes no
\* dependency of the effect that calls fetchUserData.
OnlineWithProfileStartsNoLoad ==
    [][(OnlineTransition /\ userData # Null /\ fetchError = NoError) =>
           (LoadsStarted = 0 /\ ~DepsChanged)]_vars

\* C9 as stated: at most one getDoc is in flight.
AtMostOneLoadInFlight == Len(inFlight) <= 1

AllCalls == <<"extractFacialFeatures", "uploadString", "getDownloadURL", "updateDoc">>

FaceKeys == {"faceRegistered", "faceImageUrl", "facialFeatures"}

\* updateDoc was issued by run p after the three earlier calls, in order, with
\* the features extracted and the URL obtained.
UpdateIssuedInOrder(p) ==
    /\ p.calls = AllCalls
    /\ Len(p.facialFeatures) > 0
    /\ p.imageUrl = DownloadUrl

\* C10: a run of handleLivenessSuccess has issued updateDoc only after the
\* extractor returned a non-empty vector, the upload succeeded and the URL was
\* obtained, in that order; a run that fails leaves the remote record as it
\* was; and a step that changes the remote record is the update of such a run
\* and writes faceRegistered, faceImageUrl and facialFeatures together.
UpdateOnlyAfterAllSteps ==
    [][/\ \A i \in 1..Len(pipes') :
              Includes(pipes'[i].calls, "updateDoc") =>
                  (pipes'[i].pc = "update" /\ UpdateIssuedInOrder(pipes'[i]))
       /\ enrollToast'.title = t("error") => remote' = remote
       /\ remote' # remote =>
              /\ \E i \in 1..Len(pipes) :
                     /\ pipes[i].pc = "update"
                     /\ UpdateIssuedInOrder(pipes[i])
                     /\ \A key \in FaceKeys :
                            remote'[key] = updateData(pipes[i])[key]
              /\ FaceKeys \subseteq DOMAIN remote'
              /\ Len(remote'.facialFeatures) > 0
              /\ \A key \in DOMAIN remote \ FaceKeys : remote'[key] = remote[key]]_vars

\* C10 witness: a run has issued updateDoc after the three earlier calls.
UpdateIssued ==
    \E i \in 1..Len(pipes) :
        /\ pipes[i].pc = "update"
        /\ UpdateIssuedInOrder(pipes[i])
        /\ blob = pipes[i].image

\* Run i of handleLivenessSuccess ends in its catch block in the step.
FailedRun(i) ==
    /\ i \in 1..Len(pipes)
    /\ enrollToast'.title = t("error")
    /\ pipes' = RemoveAt(pipes, i)

\* The session is discarded: no captured image, processing false.
SessionDiscarded == capturedImage' = NoImage /\ processing' = FALSE

NoRecordingDataToast == Toast(t("error"), t("no_video_data_recorded"))

\* The recordings on their way to the verifier or at it.
AtVerifier(p) == {i \in DOMAIN p : p[i].kind \in {"read", "verify"}}

\* The step fails the challenge with NoRecordingData: the toast is raised,
\* onLivenessFailure discards the captured image, and no recording goes on to
\* the verifier.
FailsWithNoRecordingData ==
    /\ lcToast' = NoRecordingDataToast
    /\ capturedImage' = NoImage /\ livenessCheckRequired' = FALSE
    /\ Cardinality(AtVerifier(pending')) <= Cardinality(AtVerifier(pending))

\* No chunk of the recording of pending item k has been kept so far.
NoChunkKept(k) == Live(k) => lc.recordedChunks = <<>>

\* C12: when the recorder's stop event arrives and the recording delivered no
\* bytes (a dataavailable event of size 0 and no chunk kept), the step fails
\* with NoRecordingData and sends nothing to the verifier, whichever
\* recordedChunks handleRecordingStop reads; and every recording that is on
\* its way to the verifier or at it has at least one chunk.
NoBytesFailsWithoutVerifier ==
    /\ \A k \in 1..Len(pending) :
           (pending[k].kind = "stop" /\ NoChunkKept(k)) =>
               ~ENABLED (/\ RecorderStopsWith(k, 0) \/ RecorderStopsFreshWith(k, 0)
                         /\ ~FailsWithNoRecordingData)
    /\ \A k \in AtVerifier(pending) : Len(pending[k].chunks) > 0

\* C12 witness: a recording ended with NoRecordingData and nothing is on its
\* way to the verifier.
EndedWithNoRecordingData ==
    /\ lcToast = NoRecordingDataToast
    /\ capturedImage = NoImage
    /\ pending = <<>>

\* C13 as stated: when the recorder's stop event arrives with a non-empty
\* chunk delivered, the challenge does not fail with NoRecordingData.
ChunkDeliveredNeverNoRecordingData ==
    \A k \in 1..Len(pending) :
        pending[k].kind = "stop" =>
            ~ENABLED (/\ RecorderStopsWith(k, 1)
                      /\ lcToast' = NoRecordingDataToast)

\* The step starts a recording.
RecordingStarts == lc.recorder = "none" /\ lc'.recorder = "recording"

\* The duration timer of a component that stays mounted fires in the step.
DurationTimerFires ==
    LivenessMounted' /\ lc.recordingTimeout /\ ~lc'.recordingTimeout

\* C14: during one recording, progress is never below 0 or above 100, no
\* step of the component other than the start of a recording lowers it, it is
\* 100 after the duration timer has fired, and it is 100 once a progress
\* callback has read a time at or after the duration.
ProgressMonotoneTo100 ==
    [][/\ lc'.progress \in 0..100
       /\ (LivenessMounted /\ LivenessMounted' /\ ~RecordingStarts) =>
              lc'.progress >= lc.progress
       /\ DurationTimerFires => lc'.progress = 100
       /\ lc'.clock >= RECORDING_DURATION_MS => lc'.progress = 100]_vars

\* C14 witness: progress went to 50, and the duration timer then fired and
\* set it to 100.
ProgressReached100 ==
    /\ lc.isRecording
    /\ lc.clock = TimeUnit
    /\ lc.progress = 100
    /\ ~lc.recordingTimeout

\* A stream is active in the Webcam element of the component.
ActiveStreams ==
    (IF wc.stream = "active" THEN 1 ELSE 0) + (IF lc.stream = "active" THEN 1 ELSE 0)

\* The toasts with which LivenessCheck reports a failed challenge.
ChallengeFailed(toast) ==
    \/ toast.title \in {t("failed"), t("webcam_error")}
    \/ /\ toast.title = t("error")
       /\ toast.description \in {t("no_video_data_recorded"),
                                 t("failed_to_process_video_data"),
                                 t("error_during_liveness_detection")}

\* The enrollment card shows neither component and is not processing.
Idle == ~LivenessMounted /\ ~WebcamMounted /\ ~processing

\* C15: in every reachable state, whatever challenges were started, failed
\* and retried before, at most one camera stream is active, at most one
\* duration timer and at most one progress timer are armed, no timer is armed
\* while LivenessCheck is not mounted, and right after a step in which a
\* challenge failed LivenessCheck is not mounted, nothing is processing and no
\* timer is armed.
NoStreamOrTimerLeak ==
    /\ ActiveStreams <= 1
    /\ timers.timeout <= 1 /\ timers.interval <= 1
    /\ ~LivenessMounted => timers = NoTimers
    /\ ChallengeFailed(lcToast) =>
           (~LivenessMounted /\ ~processing /\ timers = NoTimers)

\* C15 witness: a challenge that had been recording failed; the card is idle
\* and no timer is armed.
FailedAndDisarmed ==
    /\ lcToast = NoRecordingDataToast
    /\ Idle
    /\ timers = NoTimers
    /\ lc = LcGone

\* C16: in every reachable state WebcamCapture and LivenessCheck are not both
\* mounted, and neither is mounted while processing.
OneCameraOwner ==
    /\ ~(WebcamMounted /\ LivenessMounted)
    /\ ~(wc # WcGone /\ lc # LcGone)
    /\ processing => (~WebcamMounted /\ ~LivenessMounted /\ wc = WcGone /\ lc = LcGone)

\* C16 witness: processing with showWebcam set, and neither component mounted.
ProcessingWithWebcamRequested ==
    /\ processing
    /\ showWebcam
    /\ wc = WcGone /\ lc = LcGone

\* The stop button: the recorder is stopped while the duration timer is armed.
EarlyStop ==
    /\ LivenessMounted
    /\ lc.recorder = "recording" /\ lc'.recorder = "inactive"
    /\ lc.recordingTimeout /\ lc.progress = lc'.progress

\* C17 as stated: when the recording is stopped by the stop button the
\* duration timer and the progress timer are cancelled in that step.
EarlyStopCancelsTimers ==
    [][EarlyStop => timers' = NoTimers]_vars

\* LivenessCheck is unmounted in the step.
TornDown == LivenessMounted /\ ~LivenessMounted'

\* C18: when LivenessCheck is torn down both timers are cancelled and a
\* recorder that is recording is stopped (its stop event is queued for the
\* unmounted component); while the component is not mounted no timer is armed
\* and no recorder is recording, so none can fire.
TeardownCancelsAndStops ==
    [][/\ TornDown =>
              /\ ~lc'.recordingTimeout /\ ~lc'.progressInterval
              /\ lc.recorder = "recording" =>
                     /\ Len(pending') > 0
                     /\ pending'[Len(pending')].kind = "stop"
                     /\ ~pending'[Len(pending')].cur
       /\ ~LivenessMounted' =>
              /\ timers' = NoTimers
              /\ lc'.recorder # "recording"]_vars

\* C18 witness: the component was torn down during a recording: the stop
\* event of its recorder is queued for a component no longer mounted, and no
\* timer is armed.
TornDownWhileRecording ==
    /\ ~LivenessMounted
    /\ Len(pending) = 1
    /\ pending[1].kind = "stop" /\ ~pending[1].cur
    /\ timers = NoTimers
    /\ capturedImage # NoImage

\* C19: when the browser goes offline while the listeners are installed, the
\* same step sets the offline flag and the offline message, whether or not a
\* getDoc is in flight.
OfflineMarkedAtOnce ==
    [][(onLine /\ ~onLine' /\ onlineListeners > 0) =>
           (isOffline' = TRUE /\ fetchError' = t("offline_message"))]_vars

\* C19 witness: offline was marked while a getDoc issued online is in flight.
OfflineMarkedWithLoadInFlight ==
    /\ ~onLine
    /\ isOffline /\ fetchError = t("offline_message")
    /\ Len(inFlight) = 1 /\ inFlight[1].online
    /\ loading

IdentityKeys == {"uid", "fullName", "email", "employeeId", "department"}

\* C20: the step in which updateDoc resolved changes a held profile only in
\* faceRegistered, faceImageUrl and facialFeatures: the profile stays held,
\* uid, fullName, email, employeeId and department are present and unchanged,
\* and so is every other field.
MergeChangesOnlyFaceFields ==
    [][(enrollToast' = RegisteredToast /\ userData # Null) =>
           /\ userData' # Null
           /\ DOMAIN userData' = DOMAIN userData \cup FaceKeys
           /\ IdentityKeys \subseteq DOMAIN userData'
           /\ \A key \in DOMAIN userData \ FaceKeys :
                  userData'[key] = userData[key]]_vars

\* C20 witness: the merge was applied to a held profile.
MergedIntoHeldProfile ==
    /\ enrollToast = RegisteredToast
    /\ userData # Null
    /\ userData.uid = uid /\ userData.fullName = "name"
    /\ userData.faceImageUrl = DownloadUrl
    /\ Len(userData.facialFeatures) > 0

\* The step is the merge of handleLivenessSuccess into a held profile.
MergeIntoHeld == enrollToast' = RegisteredToast /\ userData # Null

SessionIdle ==
    /\ ~showWebcam
    /\ ~livenessCheckRequired
    /\ ~processing
    /\ capturedImage = NoImage

Abandons(cancel) == ENABLED (cancel /\ Idle' /\ SessionIdle')

CancelOffered == ENABLED (WcCancel \/ LcCancel)

FailureReturnsToIdle ==
    [][/\ (ChallengeFailed(lcToast') /\ capturedImage # NoImage) => SessionIdle'
       /\ \A i \in 1..Len(pipes) : (FailedRun(i) /\ issued) => SessionIdle'
       /\ (ChallengeFailed(lcToast') \/ enrollToast'.title = t("error")) =>
              SessionDiscarded]_vars

\* C24 witness: a run of handleLivenessSuccess has just failed at the update
\* of the profile record and the card is idle.
RunFailedAndIdle ==
    /\ enrollToast.title = t("error")
    /\ "code" \in DOMAIN enrollToast /\ enrollToast.code = "not-found"
    /\ SessionIdle
    /\ Idle

\* The step calls fetchUserData while navigator.onLine is false: a getDoc is
\* issued with currentOnlineStatus false.
LoadStartedOffline ==
    /\ LoadsStarted = 1
    /\ ~inFlight'[Len(inFlight')].online

\* C25 as stated: a load started while connectivity is down issues the read
\* and leaves fetchError at the offline message, whatever fetchError was
\* before, the offline message included.
OfflineLoadSetsOfflineError ==
    [][LoadStartedOffline => fetchError' = t("offline_message")]_vars

\* A getDoc resolved with an existing document in the step.
ReadSucceeded == lastOutcome'.kind \in {"Fresh", "FromCache"}

\* C26 as stated: after a read that returns an existing record fetchError is
\* cleared and isOffline holds exactly if the result came from the cache,
\* whether the browser was online or offline when the load started.
OfflineIffFromCache ==
    [][ReadSucceeded =>
           /\ fetchError' = NoError
           /\ isOffline' <=> (lastOutcome'.kind = "FromCache")]_vars

\* C26, amended: after such a read fetchError is cleared; isOffline holds
\* exactly if the result came from the cache when the browser was online at
\* the start of the load, and is left as it was when the browser was offline
\* at the start of the load.
OfflineIffFromCacheWhenStartedOnline ==
    [][ReadSucceeded =>
           /\ fetchError' = NoError
           /\ \E k \in 1..Len(inFlight) :
                  /\ inFlight' = RemoveAt(inFlight, k)
                  /\ IF inFlight[k].online
                     THEN isOffline' <=> (lastOutcome'.kind = "FromCache")
                     ELSE isOffline' = isOffline]_vars

\* C26 witness: a read served from the cache has just succeeded and isOffline
\* is false: the load had started offline and the browser came back online
\* before it resolved.
CachedReadLeftOnline ==
    /\ lastOutcome.kind = "FromCache"
    /\ ~isOffline
    /\ fetchError = NoError
    /\ userData # Null

\* Pressing retry starts a load: one getDoc more is in flight.
RetryLoads == ENABLED (Retry /\ LoadsStarted = 1)

NoFaceDetectedToast == Toast(t("error"), t("could_not_detect_face"))

\* The extractor's output has no feature vector or an empty one.
EmptyOrAbsent(out) ==
    \/ "facialFeatures" \notin DOMAIN out
    \/ out.facialFeatures = <<>>

\* Run i ends in the step with NoFaceDetected, having called nothing but the
\* extractor, once; the blob and the remote record are as before.
EndsWithNoFaceDetected(i) ==
    /\ enrollToast' = NoFaceDetectedToast
    /\ pipes' = RemoveAt(pipes, i)
    /\ pipes[i].calls = <<"extractFacialFeatures">>
    /\ blob' = blob /\ remote' = remote
    /\ SessionDiscarded

\* C28: when the extractor returns an output without a feature vector or with
\* an empty one, the run ends in that step with NoFaceDetected: the extractor
\* is not called again, and neither uploadString nor updateDoc was or is
\* called by the run.
EmptyFeaturesEndWithNoFaceDetected ==
    \A i \in 1..Len(pipes) :
        \A out \in {o \in ExtractorOutputs : EmptyOrAbsent(o)} :
            pipes[i].pc = "extract" =>
                /\ ENABLED (ExtractReturnsWith(i, out) /\ EndsWithNoFaceDetected(i))
                /\ ~ENABLED (ExtractReturnsWith(i, out) /\ ~EndsWithNoFaceDetected(i))

\* C28 witness: a run has just ended with NoFaceDetected; no face is
\* registered in the remote record.
EndedWithNoFaceDetected ==
    /\ enrollToast = NoFaceDetectedToast
    /\ pipes = <<>>
    /\ capturedImage = NoImage /\ ~processing
    /\ remote # NoDoc /\ ~remote.faceRegistered

\* A run of handleLivenessSuccess starts in the step: the extractor is called.
ExtractionInvoked == Len(pipes') > Len(pipes)

VerificationErrorToasts ==
    {Toast(t("error"), t("error_during_liveness_detection")),
     Toast(t("error"), t("failed_to_process_video_data"))}

\* The step ends the challenge with a verification error: not with success,
\* not with a rejection (title 'failed', missing actions), no run of
\* handleLivenessSuccess is started, and onLivenessFailure discards the
\* session.
EndsWithVerificationError ==
    /\ lcToast' \in VerificationErrorToasts
    /\ lcToast' # SuccessToast
    /\ lcToast'.title # t("failed") /\ "missing" \notin DOMAIN lcToast'
    /\ ~ExtractionInvoked
    /\ capturedImage' = NoImage /\ ~livenessCheckRequired' /\ ~processing'

\* C30: whenever the verifier call fails, because performLivenessDetection
\* throws or because the recording could not be read into a data URI, the
\* step reports an error of the verification kind and nothing else: never
\* success, never a rejection with missing actions; and a recording that could
\* not be encoded never gets a verdict from the verifier.
VerifierFailureIsVerificationError ==
    \A k \in 1..Len(pending) :
        /\ pending[k].kind \in {"verify", "verifyNull"} =>
               /\ ENABLED (VerifierThrowsAt(k) /\ EndsWithVerificationError)
               /\ ~ENABLED (VerifierThrowsAt(k) /\ ~EndsWithVerificationError)
        /\ pending[k].kind = "read" =>
               /\ ENABLED (ReaderFailsAt(k) /\ EndsWithVerificationError)
               /\ ~ENABLED (ReaderFailsAt(k) /\ ~EndsWithVerificationError)
        /\ pending[k].kind = "verifyNull" =>
               \A result \in VerifierResults : ~ENABLED VerifierReturnsWith(k, result)

\* C30 witness: the verifier call of the mounted component has just failed
\* and the challenge ended with the error toast of the catch block.
EndedWithVerificationError ==
    /\ lcToast = Toast(t("error"), t("error_during_liveness_detection"))
    /\ capturedImage = NoImage /\ ~livenessCheckRequired /\ ~processing
    /\ pipes = <<>>
    /\ pending = <<>>

\* C31: the connectivity listeners are installed and removed symmetrically:
\* from the first run of the mount effect until Dashboard is unmounted exactly
\* one online handler and one offline handler are registered, however often
\* the effect re-ran, and before the first run and after the unmount none is.
ListenersInstalledSymmetrically ==
    /\ mounted => onlineListeners = 1
    /\ ~mounted => onlineListeners = 0
    /\ unmounted => ~mounted

\* C31 witness: Dashboard was unmounted after the effect had re-run with a
\* profile held; no listener is left.
UnmountedAfterEffectReran ==
    /\ unmounted
    /\ hUserData # Null
    /\ onlineListeners = 0

\* The number of the three flags that are true.
FlagsTrue ==
    Cardinality({f \in {"showWebcam", "livenessCheckRequired", "processing"} :
                    \/ f = "showWebcam" /\ showWebcam
                    \/ f = "livenessCheckRequired" /\ livenessCheckRequired
                    \/ f = "processing" /\ processing})

Recording == lc.recorder = "recording"

\* C33: every started recording stops: while a recording is in progress its
\* duration timer is armed, the step in which the timer fires leaves the
\* recorder not recording, the stop button is offered throughout and stops
\* the recorder in its step, and, the timer firing, a recording in progress
\* is eventually no longer in progress.
StartedRecordingStops ==
    /\ [](Recording => lc.recordingTimeout /\ timers.timeout > 0)
    /\ [](Recording => ENABLED (stopRecording /\ ~Recording'))
    /\ [][(stopRecording \/ RecordingTimeout) => ~Recording']_vars
    /\ (Recording ~> ~Recording)

\* C33 witness: the duration timer fired while the recorder was recording and
\* stopped it; its stop event is still to be delivered.
StoppedByDurationTimer ==
    /\ LivenessMounted
    /\ lc.recorder = "inactive"
    /\ ~lc.recordingTimeout
    /\ \E k \in 1..Len(pending) : pending[k].kind = "stop" /\ pending[k].cur

\* What one successful run with the image and the feature vector given leaves
\* in the blob store and in the document written at registration.
SingleAttempt(image, features) ==
    [blob |-> image,
     remote |-> Merge(FreshRecord, [faceRegistered |-> TRUE,
                                    faceImageUrl |-> DownloadUrl,
                                    facialFeatures |-> features])]

\* Run i ends successfully in the step.
Succeeds(i) ==
    /\ pipes[i].pc = "update"
    /\ pipes' = RemoveAt(pipes, i)
    /\ enrollToast' = RegisteredToast

\* C34: re-running the enrollment from idle is an idempotent overwrite: a run
\* that ends successfully, whether the first or one that follows runs that
\* failed (at updateDoc or earlier), leaves the stored object and the remote
\* record equal to what a single successful run with its image and feature
\* vector leaves; a failing run leaves the remote record as it was.
RerunIsIdempotentOverwrite ==
    [][\A i \in 1..Len(pipes) :
          /\ Succeeds(i) =>
                [blob |-> blob', remote |-> remote']
                    = SingleAttempt(pipes[i].image, pipes[i].facialFeatures)
          /\ FailedRun(i) => remote' = remote]_vars

\* C34 witness: a run has just ended successfully after the updateDoc of an
\* earlier run was rejected.
SucceededAfterRejectedUpdate ==
    /\ updateRejected
    /\ enrollToast = RegisteredToast
    /\ HasFace(remote)

\* C35: with no connectivity event, retry or enrollment, no load is started
\* once a load has completed successfully and left a profile held without
\* error: the state changes made by the completed load do not themselves
\* start a load.
NoLoadAfterSuccessfulLoad ==
    [][(userData # Null /\ fetchError = NoError) => LoadsStarted = 0]_vars

\* Connectivity is down, the offline event was handled and nothing has changed
\* what it set: the offline flag and the Offline error.
DownAndMarked ==
    /\ ~onLine
    /\ isOffline
    /\ fetchError = t("offline_message")

\* A load that was started with connectivity up settles in the step.
SettlesStartedOnline ==
    /\ lastOutcome'.kind # "none"
    /\ \E k \in 1..Len(inFlight) :
           inFlight[k].online /\ inFlight' = RemoveAt(inFlight, k)

Registered(p) == "faceRegistered" \in DOMAIN p /\ p.faceRegistered

Delivery(k) ==
    \/ \E size \in DataSizes :
           RecorderStopsWith(k, size) \/ RecorderStopsFreshWith(k, size)
    \/ ReaderFailsAt(k)
    \/ \E result \in VerifierResults : VerifierReturnsWith(k, result)
    \/ VerifierThrowsAt(k)

\* The step changes the state of the enrollment controller or starts a run of
\* the pipeline.
ControllerActs ==
    \/ showWebcam' # showWebcam
    \/ capturedImage' # capturedImage
    \/ processing' # processing
    \/ livenessCheckRequired' # livenessCheckRequired
    \/ Len(pipes') > Len(pipes)

\* C38: after LivenessCheck has been torn down, a recorder stop event, a read
\* or a verifier result of the torn-down component changes no state of the
\* enrollment controller and starts no run of the pipeline.
TornDownInvokesNoCallback ==
    \A k \in 1..Len(pending) :
        ~pending[k].cur => ~ENABLED (Delivery(k) /\ ControllerActs)

\* The capture view is opened in the step.
CaptureViewOpens == ~showWebcam /\ showWebcam'

\* C39: the capture view is opened only from a state in which a profile is
\* held, the offline flag is false, processing and livenessCheckRequired are
\* false and no captured image is held; no other step sets showWebcam.
AttemptStartsOnlyWhenIdleAndOnline ==
    [][CaptureViewOpens =>
           /\ userData # Null
           /\ ~isOffline
           /\ ~processing
           /\ ~livenessCheckRequired
           /\ capturedImage = NoImage]_vars

\* C39 witness: the capture view has just been opened, for a user already
\* registered, and WebcamCapture is requesting the camera.
CaptureViewOpenedForUpdate ==
    /\ showWebcam
    /\ wc = WcFresh
    /\ Registered(userData)
    /\ ~isOffline

====
